---- MODULE Spec2Model ----
(***************************************************************************)
(* Model of src/src/main.rs: the "Matrix Manipulation Demo".               *)
(*                                                                         *)
(* The state is the UiState resource (mat_transform, ctrls_state, theta),  *)
(* the Controls flag of WndState, the Transform of the Transformable       *)
(* entity, the determinant label drawn under "Matrix Info", and            *)
(* EguiSettings.scale_factor with the keyboard state keyboard_input reads. *)
(* The Help and Status windows, the frame counter and the ambient          *)
(* brightness field hold state that none of these read; they are left out. *)
(*                                                                         *)
(* Numbers: an f32/f64 x is held as the integer 10*x (fixed point, one     *)
(* decimal).  sin, cos and tan are the library functions rounded to that   *)
(* precision on whole radians, which are the values the user enters here.  *)
(*                                                                         *)
(* One step of Next is one execution of one Update system.  A system whose *)
(* run_if condition is false does not execute.  The pointer acts on one    *)
(* widget per execution of window_ctrl / window_view.                      *)
(***************************************************************************)
EXTENDS Integers, Sequences, FiniteSets, TLC

VARIABLES
    mat_transform,  \* UiState.mat_transform : [Cells -> Int]
    ctrls_state,    \* UiState.ctrls_state   : partial map CtrlId -> CtrlState
    theta,          \* UiState.theta
    wnd_state,      \* WndState
    transform,      \* the Transform component of the Transformable entity
    det_shown,      \* <<>> before the label is first drawn, then <<determinant>>
    scale_factor,   \* EguiSettings.scale_factor
    keys,           \* Input<KeyCode> as read by the last keyboard_input
    steps,          \* number of value-changing interactions so far
    last,           \* input of the latest window_ctrl execution
    last2,          \* input of the window_ctrl execution before that
    pre,            \* UiState just before the latest window_ctrl execution
    pre_scale       \* scale_factor just before the latest keyboard_input

vars == <<mat_transform, ctrls_state, theta, wnd_state, transform, det_shown,
          scale_factor, keys, steps, last, last2, pre, pre_scale>>

ui_vars == <<mat_transform, ctrls_state, theta, wnd_state, transform,
             det_shown, steps, last, last2, pre>>

key_vars == <<scale_factor, keys, pre_scale>>

---------------------------------------------------------------------------
(* Bounds of the exploration *)

\* The user enters whole numbers -MaxVal .. MaxVal into fields and Theta.
MaxVal == 1

\* The user touches the first MaxEditIds fields of FieldOrder.
MaxEditIds == 1

\* At most MaxSteps value-changing interactions (edit, mode, reset, theta).
MaxSteps == 2

---------------------------------------------------------------------------
(* Numbers *)

Fixed(n) == 10 * n

Abs(v) == IF v < 0 THEN -v ELSE v

Min(a, b) == IF a < b THEN a ELSE b

Max(a, b) == IF a < b THEN b ELSE a

Clamp(v, lo, hi) == Max(lo, Min(v, hi))

\* f32::sin, f32::cos, f32::tan on 0, 1, ..., 6 radians, in tenths.
SinTable == <<0, 8, 9, 1, -8, -10, -3>>

CosTable == <<10, 5, -4, -10, -7, 3, 10>>

TanTable == <<0, 16, -22, -1, 12, -34, -3>>

Sin(v) == IF v < 0 THEN -SinTable[((-v) \div 10) + 1] ELSE SinTable[(v \div 10) + 1]

Cos(v) == CosTable[(Abs(v) \div 10) + 1]

Tan(v) == IF v < 0 THEN -TanTable[((-v) \div 10) + 1] ELSE TanTable[(v \div 10) + 1]

InputVals == {Fixed(k) : k \in (-MaxVal)..MaxVal}

---------------------------------------------------------------------------
(* CtrlMode, CtrlState, CtrlsState *)

\* Variant: the enumeration with one more function.
CtrlModeWithCot == {"Normal", "Sin", "NegSin", "Cos", "NegCos", "Tan", "NegTan", "Cot"}

CtrlMode == {"Normal", "Sin", "NegSin", "Cos", "NegCos", "Tan", "NegTan"}

CtrlModeDefault == "Normal"

run_mode(mode, v) ==
    CASE mode = "Normal" -> v
      [] mode = "Sin"    -> Sin(v)
      [] mode = "NegSin" -> Sin(-Abs(v))
      [] mode = "Cos"    -> Cos(v)
      [] mode = "NegCos" -> Cos(-Abs(v))
      [] mode = "Tan"    -> Tan(v)
      [] mode = "NegTan" -> Tan(-Abs(v))

NewCtrlState(default_value) ==
    [is_changed |-> FALSE, mode |-> CtrlModeDefault,
     default_value |-> default_value, value |-> default_value]

\* Variant: a reset to zero instead of the control's default.
reset_value_to_zero(state) == [state EXCEPT !.value = 0]

reset_value(state) == [state EXCEPT !.value = state.default_value]

reset_modes(s) == [id \in DOMAIN s |-> [s[id] EXCEPT !.mode = CtrlModeDefault]]

reset_values(s) == [id \in DOMAIN s |-> reset_value(s[id])]

CtrlsStateDefault == [id \in {} |-> NewCtrlState(0)]

---------------------------------------------------------------------------
(* Mat4 *)

Axes == <<"x_axis", "y_axis", "z_axis", "w_axis">>

Comps == <<"x", "y", "z", "w">>

Cells == {<<Axes[i], Comps[j]>> : i \in 1..4, j \in 1..4}

Mat4Default == [c \in Cells |-> IF \E i \in 1..4 : c = <<Axes[i], Comps[i]>>
                                THEN Fixed(1) ELSE 0]

\* glam Mat4::determinant: cofactor expansion along x_axis.
Determinant(m) ==
    LET m00 == m[<<"x_axis", "x">>]  m01 == m[<<"x_axis", "y">>]
        m02 == m[<<"x_axis", "z">>]  m03 == m[<<"x_axis", "w">>]
        m10 == m[<<"y_axis", "x">>]  m11 == m[<<"y_axis", "y">>]
        m12 == m[<<"y_axis", "z">>]  m13 == m[<<"y_axis", "w">>]
        m20 == m[<<"z_axis", "x">>]  m21 == m[<<"z_axis", "y">>]
        m22 == m[<<"z_axis", "z">>]  m23 == m[<<"z_axis", "w">>]
        m30 == m[<<"w_axis", "x">>]  m31 == m[<<"w_axis", "y">>]
        m32 == m[<<"w_axis", "z">>]  m33 == m[<<"w_axis", "w">>]
        a2323 == m22 * m33 - m23 * m32
        a1323 == m21 * m33 - m23 * m31
        a1223 == m21 * m32 - m22 * m31
        a0323 == m20 * m33 - m23 * m30
        a0223 == m20 * m32 - m22 * m30
        a0123 == m20 * m31 - m21 * m30
    IN    m00 * (m11 * a2323 - m12 * a1323 + m13 * a1223)
        - m01 * (m10 * a2323 - m12 * a0323 + m13 * a0223)
        + m02 * (m10 * a1323 - m11 * a0323 + m13 * a0123)
        - m03 * (m10 * a1223 - m11 * a0223 + m12 * a0123)

---------------------------------------------------------------------------
(* Transform.  Transform::from_matrix splits a matrix into translation,    *)
(* scale and rotation (Mat4::to_scale_rotation_translation).  The scale is *)
(* kept as the squared axis lengths and the sign of the determinant, the   *)
(* rotation as the axes it is computed from.                               *)

Vec3Of(m, axis) == <<m[<<axis, "x">>], m[<<axis, "y">>], m[<<axis, "z">>]>>

LengthSquared(m, axis) ==
      m[<<axis, "x">>] * m[<<axis, "x">>] + m[<<axis, "y">>] * m[<<axis, "y">>]
    + m[<<axis, "z">>] * m[<<axis, "z">>] + m[<<axis, "w">>] * m[<<axis, "w">>]

Signum(v) == IF v < 0 THEN -1 ELSE 1

TransformFromMatrix(m) ==
    [translation |-> Vec3Of(m, "w_axis"),
     scale_sq    |-> <<LengthSquared(m, "x_axis"), LengthSquared(m, "y_axis"),
                       LengthSquared(m, "z_axis")>>,
     scale_sign  |-> Signum(Determinant(m)),
     axes        |-> <<Vec3Of(m, "x_axis"), Vec3Of(m, "y_axis"), Vec3Of(m, "z_axis")>>]

TransformDefault == TransformFromMatrix(Mat4Default)

\* Transformable.transform: Transform::from_scale(Vec3::splat(10.))
\*                              .with_translation(Vec3::new(0., -10., -3.))
TransformableScale == 10

TransformableTransform ==
    [scale |-> TransformableScale, translation |-> <<Fixed(0), Fixed(-10), Fixed(-3)>>]

\* base * t for a base without rotation (Transform::mul_transform).
TransformMul(base, t) ==
    [translation |-> [i \in 1..3 |-> base.scale * t.translation[i] + base.translation[i]],
     scale_sq    |-> [i \in 1..3 |-> base.scale * base.scale * t.scale_sq[i]],
     scale_sign  |-> t.scale_sign,
     axes        |-> t.axes]

---------------------------------------------------------------------------
(* The 16 drag fields of mat4_ui: <<control id, axis, component, default>> *)

Fields ==
    << <<0,  "x_axis", "x", Fixed(1)>>, <<1,  "x_axis", "y", 0>>,
       <<2,  "x_axis", "z", 0>>,        <<3,  "w_axis", "x", 0>>,
       <<4,  "y_axis", "x", 0>>,        <<5,  "y_axis", "y", Fixed(1)>>,
       <<6,  "y_axis", "z", 0>>,        <<7,  "w_axis", "y", 0>>,
       <<8,  "z_axis", "x", 0>>,        <<9,  "z_axis", "y", 0>>,
       <<10, "z_axis", "z", Fixed(1)>>, <<11, "w_axis", "z", 0>>,
       <<12, "x_axis", "w", 0>>,        <<13, "y_axis", "w", 0>>,
       <<14, "z_axis", "w", 0>>,        <<15, "w_axis", "w", Fixed(1)>> >>

CtrlIds == {Fields[k][1] : k \in 1..Len(Fields)}

\* The fields the user touches, most telling first.
FieldOrder == <<15, 3, 0, 12, 5, 10, 1, 4, 2, 8, 6, 9, 7, 11, 13, 14>>

EditIds == {FieldOrder[k] : k \in 1..Min(MaxEditIds, Len(FieldOrder))}

\* The cell and the default value that mat4_ui passes with control id.
FieldCell(id) == <<Fields[id + 1][2], Fields[id + 1][3]>>

FieldDefault(id) == Fields[id + 1][4]

---------------------------------------------------------------------------
(* The user's action on the Controls window during one frame *)

NoInput == [kind |-> "none", id |-> 0, v |-> 0, mode |-> "Normal"]

Inputs ==
    {NoInput, [NoInput EXCEPT !.kind = "close"]}
    \cup {[NoInput EXCEPT !.kind = "drag", !.id = i, !.v = v] : i \in EditIds, v \in InputVals}
    \cup {[NoInput EXCEPT !.kind = "mode", !.id = i, !.mode = m] : i \in EditIds, m \in CtrlMode}
    \cup {[NoInput EXCEPT !.kind = k] : k \in {"reset_all", "reset_matrix", "reset_mode"}}
    \cup {[NoInput EXCEPT !.kind = "theta", !.v = v] : v \in InputVals}

CountsAsStep(inp) == inp.kind \notin {"none", "close"}

---------------------------------------------------------------------------
(* EguiExtras::matrix_drag: the new map and the value synced to the cell *)

InsertDefault(id, s, default_value) ==
    IF id \in DOMAIN s THEN s
    ELSE [i \in DOMAIN s \cup {id} |->
            IF i = id THEN NewCtrlState(default_value) ELSE s[i]]

\* Variant: the cell is synced before the mode function is applied.
matrix_drag_sync_entered(id, s, default_value, inp) ==
    LET s1 == InsertDefault(id, s, default_value)
        c0 == s1[id]
        changed == inp.kind = "drag" /\ inp.id = id
        c1 == IF changed THEN [c0 EXCEPT !.value = inp.v, !.is_changed = TRUE] ELSE c0
        c2 == IF c1.is_changed
              THEN [c1 EXCEPT !.value = run_mode(c1.mode, c1.value), !.is_changed = FALSE]
              ELSE c1
        c3 == IF inp.kind = "mode" /\ inp.id = id THEN [c2 EXCEPT !.mode = inp.mode] ELSE c2
    IN  [s |-> [s1 EXCEPT ![id] = c3], sync_value |-> c1.value]

\* Variant: is_changed is not cleared after the mode function has run.
matrix_drag_keep_flag(id, s, default_value, inp) ==
    LET s1 == InsertDefault(id, s, default_value)
        c0 == s1[id]
        changed == inp.kind = "drag" /\ inp.id = id
        c1 == IF changed THEN [c0 EXCEPT !.value = inp.v, !.is_changed = TRUE] ELSE c0
        c2 == IF c1.is_changed
              THEN [c1 EXCEPT !.value = run_mode(c1.mode, c1.value)]
              ELSE c1
        c3 == IF inp.kind = "mode" /\ inp.id = id THEN [c2 EXCEPT !.mode = inp.mode] ELSE c2
    IN  [s |-> [s1 EXCEPT ![id] = c3], sync_value |-> c3.value]

matrix_drag(id, s, default_value, inp) ==
    LET s1 == InsertDefault(id, s, default_value)
        c0 == s1[id]
        changed == inp.kind = "drag" /\ inp.id = id
        c1 == IF changed THEN [c0 EXCEPT !.value = inp.v, !.is_changed = TRUE] ELSE c0
        c2 == IF c1.is_changed
              THEN [c1 EXCEPT !.value = run_mode(c1.mode, c1.value), !.is_changed = FALSE]
              ELSE c1
        c3 == IF inp.kind = "mode" /\ inp.id = id THEN [c2 EXCEPT !.mode = inp.mode] ELSE c2
    IN  [s |-> [s1 EXCEPT ![id] = c3], sync_value |-> c3.value]

\* The 16 calls of matrix_drag in mat4_ui, in source order, from field k on.
RECURSIVE DragFields(_, _, _, _)
DragFields(k, s, value, inp) ==
    IF k > Len(Fields) THEN [s |-> s, value |-> value]
    ELSE LET f == Fields[k]
             r == matrix_drag(f[1], s, f[4], inp)
         IN  DragFields(k + 1, r.s, [value EXCEPT ![<<f[2], f[3]>>] = r.sync_value], inp)

ResetButtons(s, inp) ==
    CASE inp.kind = "reset_all"    -> CtrlsStateDefault
      [] inp.kind = "reset_matrix" -> reset_values(s)
      [] inp.kind = "reset_mode"   -> reset_modes(s)
      [] OTHER                     -> s

FOUR_PI == 126

\* Variant: Theta drives every control, whatever its mode.
ThetaDragAllModes(s, th, inp) ==
    LET new == IF inp.kind = "theta" THEN Clamp(inp.v, -FOUR_PI, FOUR_PI) ELSE th
    IN  [theta |-> new,
         s |-> IF new # th
               THEN [i \in DOMAIN s |-> [s[i] EXCEPT !.value = new, !.is_changed = TRUE]]
               ELSE s]

\* The Theta DragValue and its handle.changed() branch.
ThetaDrag(s, th, inp) ==
    LET new == IF inp.kind = "theta" THEN Clamp(inp.v, -FOUR_PI, FOUR_PI) ELSE th
    IN  [theta |-> new,
         s |-> IF new # th
               THEN [i \in DOMAIN s |->
                       IF s[i].mode = "Normal" THEN s[i]
                       ELSE [s[i] EXCEPT !.value = new, !.is_changed = TRUE]]
               ELSE s]

\* Variant: the determinant of the affine part, the w_axis taken as (0, 0, 0, 1).
DeterminantLabelIgnoringWAxis(value) ==
    Determinant([c \in Cells |-> IF c[1] = "w_axis" THEN Mat4Default[c] ELSE value[c]])

\* The "Determinant: {}" label.
DeterminantLabel(value) == Determinant(value)

mat4_ui(s, th, value, inp) ==
    LET d == DragFields(1, s, value, inp)
        b == ResetButtons(d.s, inp)
        t == ThetaDrag(b, th, inp)
    IN  [ctrls_state |-> t.s, theta |-> t.theta, value |-> d.value,
         det |-> DeterminantLabel(d.value)]

\* Variant: the base transform of the entity is left out.
ApplyTransformWithoutBase(m) == TransformFromMatrix(m)

ApplyTransform(m) == TransformMul(TransformableTransform, TransformFromMatrix(m))

---------------------------------------------------------------------------
(* keyboard_input *)

CtrlKeys == {"ControlLeft", "ControlRight"}

HandledKeys == {"Equals", "Plus", "Key0", "Numpad0", "Minus"}

KeyStates == [pressed : SUBSET CtrlKeys, just_pressed : SUBSET HandledKeys]

ScaleStep == 2

ScaleMin == 5

ScaleMax == 35

ScaleReset == 12

ScaleUp(sf) == Clamp(sf + ScaleStep, ScaleMin, ScaleMax)

\* Variant: Minus steps the same way as Plus.
ScaleDownAdds(sf) == Clamp(sf + ScaleStep, ScaleMin, ScaleMax)

ScaleDown(sf) == Clamp(sf - ScaleStep, ScaleMin, ScaleMax)

NextScaleFactor(sf, k) ==
    IF k.pressed \cap CtrlKeys = {} THEN sf
    ELSE LET a == IF k.just_pressed \cap {"Equals", "Plus"} # {} THEN ScaleUp(sf) ELSE sf
             b == IF k.just_pressed \cap {"Key0", "Numpad0"} # {} THEN ScaleReset ELSE a
         IN  IF "Minus" \in k.just_pressed THEN ScaleDown(b) ELSE b

---------------------------------------------------------------------------
(* The state after App::new() ... .run() has built the world *)

\* WndState, restricted to the flag of the Controls window.
WndStateDefault == [is_open_ctrl_wnd |-> TRUE]

StartInput == [NoInput EXCEPT !.kind = "start"]

Snapshot == [ctrls_state |-> ctrls_state, theta |-> theta, mat_transform |-> mat_transform]

Init ==
    /\ mat_transform = Mat4Default
    /\ ctrls_state = CtrlsStateDefault
    /\ theta = 0
    /\ wnd_state = WndStateDefault
    /\ transform = TransformDefault
    /\ det_shown = <<>>
    /\ scale_factor = Fixed(1)
    /\ keys = [pressed |-> {}, just_pressed |-> {}]
    /\ steps = 0
    /\ last = StartInput
    /\ last2 = StartInput
    /\ pre = [ctrls_state |-> CtrlsStateDefault, theta |-> 0, mat_transform |-> Mat4Default]
    /\ pre_scale = Fixed(1)

---------------------------------------------------------------------------
(* The Update systems *)

\* What handle.changed() needs: the dragged field or Theta gets a new value.
InputPossible(inp) ==
    /\ CountsAsStep(inp) => steps < MaxSteps
    /\ inp.kind = "drag" =>
         inp.v # (IF inp.id \in DOMAIN ctrls_state THEN ctrls_state[inp.id].value
                  ELSE FieldDefault(inp.id))
    /\ inp.kind = "theta" => inp.v # theta

window_ctrl ==
    /\ wnd_state.is_open_ctrl_wnd = TRUE
    /\ \E inp \in Inputs :
         /\ InputPossible(inp)
         /\ \E r \in {mat4_ui(ctrls_state, theta, mat_transform, inp)} :
                /\ ctrls_state' = r.ctrls_state
                /\ theta' = r.theta
                /\ mat_transform' = r.value
                /\ det_shown' = <<r.det>>
                /\ transform' = ApplyTransform(r.value)
         /\ wnd_state' = IF inp.kind = "close"
                         THEN [wnd_state EXCEPT !.is_open_ctrl_wnd = FALSE]
                         ELSE wnd_state
         /\ steps' = IF CountsAsStep(inp) THEN steps + 1 ELSE steps
         /\ last' = inp
         /\ last2' = last
         /\ pre' = Snapshot
    /\ UNCHANGED key_vars

window_view ==
    /\ \E box \in DOMAIN wnd_state :
         wnd_state' = [wnd_state EXCEPT ![box] = ~wnd_state[box]]
    /\ UNCHANGED <<mat_transform, ctrls_state, theta, transform, det_shown,
                   steps, last, last2, pre>>
    /\ UNCHANGED key_vars

keyboard_input ==
    /\ \E k \in KeyStates :
         /\ keys' = k
         /\ scale_factor' = NextScaleFactor(scale_factor, k)
    /\ pre_scale' = scale_factor
    /\ UNCHANGED ui_vars

Next == window_ctrl \/ window_view

Spec == Init /\ [][Next]_vars

\* keyboard_input shares no state with the other systems.
NextKeys == keyboard_input

SpecKeys == Init /\ [][NextKeys]_vars

---------------------------------------------------------------------------
(* Vocabulary of the properties *)

Drawn == last.kind # "start"

Idle(inp) == inp.kind = "none"

Permutations4 == {p \in [1..4 -> 1..4] : \A i, j \in 1..4 : i # j => p[i] # p[j]}

Inversions(p) == Cardinality({ij \in (1..4) \X (1..4) : ij[1] < ij[2] /\ p[ij[1]] > p[ij[2]]})

RECURSIVE SeqOf(_)
SeqOf(S) == IF S = {} THEN <<>>
            ELSE LET x == CHOOSE y \in S : TRUE IN <<x>> \o SeqOf(S \ {x})

\* The 24 permutations of 1..4, each with its sign.
SignedPermutations ==
    LET ps == SeqOf(Permutations4)
    IN  [k \in 1..Len(ps) |->
           [sign |-> IF Inversions(ps[k]) % 2 = 0 THEN 1 ELSE -1, p |-> ps[k]]]

RECURSIVE LeibnizSum(_, _)
LeibnizSum(m, k) ==
    IF k > Len(SignedPermutations) THEN 0
    ELSE LET sp == SignedPermutations[k]
         IN  sp.sign * m[<<Axes[sp.p[1]], Comps[1]>>] * m[<<Axes[sp.p[2]], Comps[2]>>]
                     * m[<<Axes[sp.p[3]], Comps[3]>>] * m[<<Axes[sp.p[4]], Comps[4]>>]
             + LeibnizSum(m, k + 1)

\* The determinant by the Leibniz formula: sum over permutations of signed products.
LeibnizDet(m) == LeibnizSum(m, 1)

WAxisVariants(m) ==
    {[c \in Cells |-> IF c[1] = "w_axis" THEN w[c[2]] ELSE m[c]] :
        w \in [{"x", "y", "z", "w"} -> InputVals]}

---------------------------------------------------------------------------
(* C1 *)

\* C1 as stated: after a frame in which the user entered v into a field, the
\* cell bound to that field holds v, whatever the mode.
C1_EnteredValueHeld ==
    last.kind = "drag" => mat_transform[FieldCell(last.id)] = last.v

\* C1 amended: after a frame in which the user entered v into a field, the
\* cell bound to that field and the control's value hold run_mode(mode, v) for
\* the control's mode; that is v itself when the mode is Normal.
C1_EnteredValueThroughMode ==
    last.kind = "drag" =>
        /\ last.id \in DOMAIN ctrls_state
        /\ ctrls_state[last.id].mode \in {"Sin", "NegSin", "Cos", "NegCos", "Tan", "NegTan"} =>
             mat_transform[FieldCell(last.id)] = run_mode(ctrls_state[last.id].mode, last.v)
        /\ ctrls_state[last.id].mode = "Normal" =>
             mat_transform[FieldCell(last.id)] = last.v
        /\ ctrls_state[last.id].value = mat_transform[FieldCell(last.id)]

C1_Witness ==
    /\ last.kind = "drag"
    /\ ctrls_state[last.id].mode # "Normal"
    /\ mat_transform[FieldCell(last.id)] # last.v
    /\ mat_transform[FieldCell(last.id)] = ctrls_state[last.id].value

---------------------------------------------------------------------------
(* C2 *)

---------------------------------------------------------------------------
(* C3 *)

\* C3 as stated: the determinant shown ignores w_axis; every matrix that
\* differs from the displayed one only in the w_axis entries (the fields 3,
\* 7, 11 and 15) is displayed with the same determinant.
C3_DeterminantIgnoresWAxis ==
    Drawn => \A m2 \in WAxisVariants(mat_transform) : <<DeterminantLabel(m2)>> = det_shown

---------------------------------------------------------------------------
(* C4 *)

\* C4 as stated: every control's mode is one of the four functions
\* identity, sin, cos, tan.
C4_FourModes ==
    \A id \in DOMAIN ctrls_state : ctrls_state[id].mode \in {"Normal", "Sin", "Cos", "Tan"}

\* C4 amended: every control's mode is one of the seven functions Normal,
\* Sin, NegSin, Cos, NegCos, Tan, NegTan, and a mode picked in the context
\* menu is one of these seven and becomes the control's mode.
C4_SevenModes ==
    /\ \A id \in DOMAIN ctrls_state :
         ctrls_state[id].mode \in {"Normal", "Sin", "NegSin", "Cos", "NegCos", "Tan", "NegTan"}
    /\ last.kind = "mode" =>
         /\ last.mode \in {"Normal", "Sin", "NegSin", "Cos", "NegCos", "Tan", "NegTan"}
         /\ ctrls_state[last.id].mode = last.mode

C4_Witness ==
    /\ last.kind = "mode"
    /\ last.mode \in {"NegSin", "NegCos", "NegTan"}
    /\ ctrls_state[last.id].mode = last.mode

---------------------------------------------------------------------------
(* C5 *)

\* C5: once window_ctrl has executed, the entity's Transform is the base
\* transform composed with Transform::from_matrix(ui_state.mat_transform), in
\* every later state, also while the Controls window is closed.
C5_TransformApplied ==
    Drawn => transform = TransformMul(TransformableTransform,
                                      TransformFromMatrix(mat_transform))

C5_Witness ==
    /\ wnd_state.is_open_ctrl_wnd = FALSE
    /\ last2.kind = "drag"
    /\ mat_transform # Mat4Default
    /\ transform = TransformMul(TransformableTransform, TransformFromMatrix(mat_transform))

---------------------------------------------------------------------------
(* C6 *)

Resets == {"reset_all", "reset_matrix", "reset_mode"}

\* What each reset button has done at the end of the frame of the click.
ResetClickEffect ==
    /\ last.kind = "reset_matrix" =>
         /\ DOMAIN ctrls_state = CtrlIds
         /\ \A id \in CtrlIds :
              /\ ctrls_state[id].value = ctrls_state[id].default_value
              /\ ctrls_state[id].value = FieldDefault(id)
              /\ id \in DOMAIN pre.ctrls_state =>
                   ctrls_state[id].mode = pre.ctrls_state[id].mode
    /\ last.kind = "reset_mode" =>
         /\ DOMAIN ctrls_state = CtrlIds
         /\ \A id \in CtrlIds :
              /\ ctrls_state[id].mode = "Normal"
              /\ ctrls_state[id].value = mat_transform[FieldCell(id)]
    /\ last.kind = "reset_all" =>
         \A id \in DOMAIN ctrls_state :
              /\ ctrls_state[id].value = FieldDefault(id)
              /\ ctrls_state[id].mode = "Normal"

\* What the first frame drawn after the click shows.
ResetShown ==
    /\ DOMAIN ctrls_state = CtrlIds
    /\ \A id \in CtrlIds : mat_transform[FieldCell(id)] = ctrls_state[id].value
    /\ last2.kind \in {"reset_matrix", "reset_all"} =>
         /\ mat_transform = Mat4Default
         /\ \A id \in CtrlIds : ctrls_state[id].value = FieldDefault(id)
    /\ last2.kind \in {"reset_mode", "reset_all"} =>
         \A id \in CtrlIds : ctrls_state[id].mode = "Normal"
    /\ last2.kind = "reset_mode" =>
         \A id \in CtrlIds : mat_transform[FieldCell(id)] = pre.mat_transform[FieldCell(id)]

\* C6 as stated: each reset button resets what it names, and after the next
\* frame drawn with the Controls window open all 16 controls exist and the
\* matrix reflects the reset values (the identity after Reset Matrix or
\* Reset All).
C6_ResetThenNextFrame ==
    /\ ResetClickEffect
    /\ last2.kind \in Resets =>
         /\ DOMAIN ctrls_state = CtrlIds
         /\ last2.kind \in {"reset_matrix", "reset_all"} => mat_transform = Mat4Default

\* C6 amended: each reset button resets what it names, and after the next
\* frame drawn with the Controls window open and without user interaction
\* all 16 controls exist and the matrix reflects the reset values (the
\* identity after Reset Matrix or Reset All).
C6_ResetThenIdleFrame ==
    /\ ResetClickEffect
    /\ (last2.kind \in Resets /\ Idle(last)) => ResetShown

C6_Witness ==
    /\ last2.kind = "reset_matrix"
    /\ Idle(last)
    /\ pre.mat_transform # Mat4Default
    /\ mat_transform = Mat4Default
    /\ DOMAIN ctrls_state = CtrlIds

---------------------------------------------------------------------------
(* C7 *)

\* C7: a frame drawn without user interaction leaves all 16 controls present
\* with is_changed false and every cell equal to its control's value; a further
\* such frame changes nothing in ctrls_state, theta and mat_transform.
C7_IdleFramesSettle ==
    /\ Idle(last) =>
         /\ DOMAIN ctrls_state = CtrlIds
         /\ \A id \in CtrlIds :
              /\ ctrls_state[id].is_changed = FALSE
              /\ mat_transform[FieldCell(id)] = ctrls_state[id].value
    /\ (Idle(last2) /\ Idle(last)) =>
         /\ ctrls_state = pre.ctrls_state
         /\ theta = pre.theta
         /\ mat_transform = pre.mat_transform

C7_Witness ==
    /\ Idle(last2)
    /\ Idle(last)
    /\ ctrls_state = pre.ctrls_state
    /\ \E id \in CtrlIds :
         /\ ctrls_state[id].mode # "Normal"
         /\ run_mode(ctrls_state[id].mode, ctrls_state[id].value) # ctrls_state[id].value
         /\ ctrls_state[id].value # FieldDefault(id)

---------------------------------------------------------------------------
(* C8 *)

CtrlHeld == keys.pressed \cap {"ControlLeft", "ControlRight"} # {}

OnlyPlus == keys.just_pressed # {} /\ keys.just_pressed \subseteq {"Equals", "Plus"}

OnlyMinus == keys.just_pressed = {"Minus"}

\* C8 as stated: Ctrl with Plus or Equals makes scale_factor strictly
\* greater, Ctrl with Minus makes it strictly smaller.
C8_StrictlyMonotone ==
    /\ (CtrlHeld /\ OnlyPlus) => scale_factor > pre_scale
    /\ (CtrlHeld /\ OnlyMinus) => scale_factor < pre_scale

\* C8 amended: Ctrl with Plus or Equals makes scale_factor strictly greater
\* unless it is already 3.5, the maximum, where it stays; Ctrl with Minus
\* makes it strictly smaller unless it is already 0.5, the minimum, where it
\* stays.
C8_MonotoneUpToClamp ==
    /\ (CtrlHeld /\ OnlyPlus) =>
         IF pre_scale = 35 THEN scale_factor = 35
         ELSE scale_factor > pre_scale /\ scale_factor <= 35
    /\ (CtrlHeld /\ OnlyMinus) =>
         IF pre_scale = 5 THEN scale_factor = 5
         ELSE scale_factor < pre_scale /\ scale_factor >= 5

C8_Witness ==
    /\ CtrlHeld
    /\ OnlyPlus
    /\ pre_scale = 35
    /\ scale_factor = 35

---------------------------------------------------------------------------
(* C9 *)

\* C9: in the frame in which Theta changes, every control whose mode is not
\* Normal gets value = theta and is_changed, every Normal control keeps its
\* value and flag; after the next frame drawn without user interaction each
\* such non-Normal control's value and cell are run_mode(mode, theta) and its
\* flag is false.
C9_ThetaDrivesWrappedFields ==
    /\ last.kind = "theta" =>
         /\ theta = last.v
         /\ \A id \in DOMAIN ctrls_state :
              IF ctrls_state[id].mode = "Normal"
              THEN /\ ctrls_state[id].is_changed = FALSE
                   /\ ctrls_state[id].value = mat_transform[FieldCell(id)]
                   /\ id \in DOMAIN pre.ctrls_state => ctrls_state[id] = pre.ctrls_state[id]
              ELSE /\ ctrls_state[id].value = theta
                   /\ ctrls_state[id].is_changed = TRUE
    /\ (last2.kind = "theta" /\ Idle(last)) =>
         \A id \in DOMAIN pre.ctrls_state :
              pre.ctrls_state[id].mode # "Normal" =>
                /\ ctrls_state[id].value = run_mode(ctrls_state[id].mode, theta)
                /\ mat_transform[FieldCell(id)] = run_mode(ctrls_state[id].mode, theta)
                /\ ctrls_state[id].is_changed = FALSE
                /\ theta = last2.v

C9_Witness ==
    /\ last2.kind = "theta"
    /\ Idle(last)
    /\ \E id \in CtrlIds :
         /\ ctrls_state[id].mode # "Normal"
         /\ mat_transform[FieldCell(id)] = run_mode(ctrls_state[id].mode, theta)
         /\ mat_transform[FieldCell(id)] # theta
         /\ \E other \in CtrlIds :
              ctrls_state[other].mode = "Normal" /\ ctrls_state[other].value # theta

====
